---- MODULE Spec2Model ----
(***************************************************************************)
(* ReaScript socket bridge: the tick-driven server (api_server.py) with    *)
(* its Hold Sub-loop, and the synchronous client (api_client.py).          *)
(*                                                                         *)
(* Bytes on the wire are numbers 0..255.  The 4-byte length prefix is the  *)
(* real little-endian encoding.  JSON text is outside the protocol engine  *)
(* (json.dumps/json.loads are library code): a request object is written   *)
(* as the two bytes <<kind, id>> and a response object as the three bytes  *)
(* <<type, id, value>>; every other byte string is text json.loads rejects *)
(* or accepts as a non-object value.                                       *)
(*                                                                         *)
(* Spec       : the server driven by an arbitrary peer that may pipeline   *)
(*              frames, close mid-message and abort the connection.        *)
(* SpecClient : the server driven by the repository's client.              *)
(***************************************************************************)
EXTENDS Integers, Sequences, FiniteSets, TLC

\* ------------------------------------------------------------------ bounds
MaxFrames == 3      \* request frames the peer sends in one behaviour of Spec
MaxFailFrames == 2  \* request frames the peer sends in one behaviour of SpecFail
MaxConns == 2       \* connections the peer opens in one behaviour
MaxTimeouts == 1    \* consecutive read timeouts recorded inside one blocking read
MaxOps == 3         \* API operations the client program performs

\* ------------------------------------------------------- program constants
RECV_SIZE == 4096   \* conn.recv(4096) in Server.run
HDR_LEN == 4        \* struct "<I": four bytes
FIRST_ID == 1       \* Client._next_request_id starts at 1

None == 0           \* Python None for a connection, an id, a value
NoLen == -1         \* Python None for _expect_len

\* -------------------------------------------------------------- sequences
Min(a, b) == IF a < b THEN a ELSE b

Take(s, n) == SubSeq(s, 1, Min(n, Len(s)))

Drop(s, n) == SubSeq(s, Min(n, Len(s)) + 1, Len(s))

IsPrefix(p, s) == Len(p) <= Len(s) /\ SubSeq(s, 1, Len(p)) = p

\* ------------------------------------------------------------ frame codec
\* struct.pack("<I", n)
StructPack(n) ==
    << n % 256, (n \div 256) % 256, (n \div 65536) % 256, (n \div 16777216) % 256 >>

\* struct.unpack("<I", raw)[0]
StructUnpack(raw) ==
    raw[1] + 256 * raw[2] + 65536 * raw[3] + 16777216 * raw[4]

\* length prefix + payload, as both _send_message functions build it
Frame(payload) == StructPack(Len(payload)) \o payload

RECURSIVE ConcatFrames(_)
ConcatFrames(payloads) ==
    IF payloads = << >> THEN << >>
    ELSE Frame(Head(payloads)) \o ConcatFrames(Tail(payloads))

\* The complete frames at the head of a byte string, read as a receiver reads them.
RECURSIVE ParseFrames(_)
ParseFrames(bytes) ==
    IF Len(bytes) < HDR_LEN THEN << >>
    ELSE LET n == StructUnpack(Take(bytes, HDR_LEN))
         IN  IF Len(bytes) < HDR_LEN + n THEN << >>
             ELSE << SubSeq(bytes, HDR_LEN + 1, HDR_LEN + n) >>
                      \o ParseFrames(Drop(bytes, HDR_LEN + n))

\* ------------------------------------------------- request/response values
\* Request kinds: the first byte of a request object's text.
K_CALL_OK == 1        \* {"type":"call","name":"RPR_ok","args":[...]}
K_CALL_MISSING == 2   \* {"type":"call","name":"RPR_missing","args":[...]}
K_CALL_RAISES == 3    \* {"type":"call","name":"RPR_raise","args":[...]}
K_CALL_BADARGS == 4   \* {"type":"call","name":"RPR_ok","args":{...}}
K_HOLD == 5           \* {"type":"control","cmd":"HOLD"}
K_RELEASE == 6        \* {"type":"control","cmd":"RELEASE"}
K_BADCMD == 7         \* {"type":"control","cmd":"PAUSE"}
K_BADTYPE == 8        \* {"type":"ping"} or no "type" member
K_SCALAR == 9         \* the one-byte text of a JSON value that is no object
Kinds == K_CALL_OK .. K_BADTYPE

\* Response type bytes
R_RESULT == 1
R_ERROR == 2

\* Values and failure descriptions (the third byte of a response object)
V_OK == 7             \* what RPR_ok returns
E_PARSE == 11         \* json.loads failed, or the value is no object
E_ARGS == 12          \* "args must be a list"
E_NAME == 13          \* "function not allowed or not found"
E_INVOKE == 14        \* the registered function raised
E_CMD == 15           \* "unknown control cmd"
E_TYPE == 16          \* "unsupported request type"
E_IO == 17            \* an OSError raised by a socket call inside the handler

\* json.loads(body.decode("utf-8")) on the server
JsonLoads(body) ==
    IF Len(body) = 2 /\ body[1] \in Kinds
    THEN [ok |-> TRUE, dict |-> TRUE, kind |-> body[1], id |-> body[2]]
    ELSE IF body = << K_SCALAR >>
    THEN [ok |-> TRUE, dict |-> FALSE, kind |-> 0, id |-> None]
    ELSE [ok |-> FALSE, dict |-> FALSE, kind |-> 0, id |-> None]

\* request.get("type")
ReqType(req) ==
    IF req.kind \in {K_CALL_OK, K_CALL_MISSING, K_CALL_RAISES, K_CALL_BADARGS} THEN "call"
    ELSE IF req.kind \in {K_HOLD, K_RELEASE, K_BADCMD} THEN "control"
    ELSE "other"

\* request.get("cmd")
ReqCmd(req) ==
    IF req.kind = K_HOLD THEN "HOLD"
    ELSE IF req.kind = K_RELEASE THEN "RELEASE"
    ELSE "PAUSE"

\* request.get("name")
ReqName(req) ==
    IF req.kind = K_CALL_MISSING THEN "RPR_missing"
    ELSE IF req.kind = K_CALL_RAISES THEN "RPR_raise"
    ELSE "RPR_ok"

\* type(args) is list
ArgsIsList(req) == req.kind # K_CALL_BADARGS

\* The names with the RPR_ prefix, and the callables of the module's globals.
RprNames == {"RPR_ok", "RPR_raise", "RPR_missing"}
Callables == {"RPR_ok", "RPR_raise", "socket"}

\* _get_callable without its callable() test: any RPR_ name is returned.
GetCallableUnchecked(name) ==
    IF name \in RprNames THEN name ELSE "None"

\* Server._get_callable
GetCallable(name) ==
    IF name \in RprNames /\ name \in Callables THEN name ELSE "None"

\* json.dumps of a response object
JsonDumps(obj) == << obj.type, obj.id, obj.value >>

\* json.loads on the client
JsonLoadsResp(body) ==
    IF Len(body) = 3
    THEN [ok |-> TRUE, dict |-> TRUE, type |-> body[1], id |-> body[2], value |-> body[3]]
    ELSE IF Len(body) = 1
    THEN [ok |-> TRUE, dict |-> FALSE, type |-> 0, id |-> None, value |-> None]
    ELSE [ok |-> FALSE, dict |-> FALSE, type |-> 0, id |-> None, value |-> None]


\* -------------------------------------------------------------------- state
VARIABLES
    conn,          \* Server._conn: the accepted connection, or None
    recv_buf,      \* Server._recv_buf
    send_buf,      \* Server._send_buf
    expect_len,    \* Server._expect_len, or NoLen
    holding,       \* Server._holding
    blocking,      \* mode of the accepted socket: TRUE after setblocking(True)
    pc,            \* where the tick is: "idle" between ticks, else inside _hold_loop
    stack,         \* the active _hold_loop frames, innermost last
    hold_n,        \* n of _recv_message while the body is being read
    backlog,       \* connections waiting in the listen queue
    nconn,         \* connections opened so far
    peer,          \* per connection, the peer's end: "none", "open", "closed", "reset",
                   \* or open and not reading: "stalled" (its window is full), "slow"
                   \* (it takes a part of what is written, then its window is full)
    srv_closed,    \* per connection: the server has closed its end
    c2s,           \* per connection: bytes sent by the peer, not yet read by the server
    s2c,           \* per connection: every byte the server has written
    peer_sent,     \* per connection: the payloads of the frames the peer has sent
    nframes,       \* request frames the peer has sent so far
    reactor_in,    \* per connection: every byte Server.run has read
    log,           \* requests dispatched and responses enqueued, in order
    last,          \* the server before and after the request the latest step handled last
    last_reset,    \* the _reset the latest step performed, if any
    timeouts,      \* consecutive timeouts of the blocking read in progress
    cl_conn,       \* Client._conn, or None
    cl_next_request_id,  \* Client._next_request_id
    cl_holding,    \* Client._holding
    cl_pc,         \* "ready", or "recv" while an exchange waits for its response
    cl_req,        \* the exchange in progress: operation and request id
    cl_roff,       \* bytes of s2c the client has read
    cl_scope,      \* the client program is inside the body of a hold() scope
    cl_done,       \* the latest completed client operation and its outcome
    cl_ops         \* client operations started

srv_vars == << conn, recv_buf, send_buf, expect_len, holding, blocking, pc, stack,
               hold_n, backlog, srv_closed, c2s, s2c, peer_sent, reactor_in, log,
               last, last_reset, timeouts >>

net_vars == << nconn, peer, nframes >>

cl_vars == << cl_conn, cl_next_request_id, cl_holding, cl_pc, cl_req, cl_roff,
              cl_scope, cl_done, cl_ops >>

vars == << srv_vars, net_vars, cl_vars >>

Conns == 1 .. MaxConns

NoObj == [type |-> 0, id |-> None, value |-> None]

NoLast ==
    [body |-> << >>, depth |-> 0, conn |-> None, conn2 |-> None,
     holding |-> FALSE, holding2 |-> FALSE, recv_buf |-> << >>, recv_buf2 |-> << >>,
     expect_len |-> NoLen, expect_len2 |-> NoLen,
     send_buf |-> << >>, send_buf2 |-> << >>,
     blocking |-> FALSE, blocking2 |-> FALSE, nresp |-> 0]

NoReset == [cause |-> "none", mid |-> FALSE]

\* The server and its sockets as one value; exc, cur and rid are the locals of the
\* handler being executed (the exception in flight, the body and request_id of _handle).
\* last and last_reset describe the step being taken, so every step starts them afresh.
S ==
    [conn |-> conn, recv_buf |-> recv_buf, send_buf |-> send_buf,
     expect_len |-> expect_len, holding |-> holding, blocking |-> blocking,
     pc |-> pc, stack |-> stack, hold_n |-> hold_n, backlog |-> backlog,
     srv_closed |-> srv_closed, c2s |-> c2s, s2c |-> s2c, peer_sent |-> peer_sent,
     reactor_in |-> reactor_in, log |-> log, last |-> NoLast, last_reset |-> NoReset,
     timeouts |-> timeouts, exc |-> 0, cur |-> << >>, rid |-> None]

Commit(s) ==
    /\ conn' = s.conn
    /\ recv_buf' = s.recv_buf
    /\ send_buf' = s.send_buf
    /\ expect_len' = s.expect_len
    /\ holding' = s.holding
    /\ blocking' = s.blocking
    /\ pc' = s.pc
    /\ stack' = s.stack
    /\ hold_n' = s.hold_n
    /\ backlog' = s.backlog
    /\ srv_closed' = s.srv_closed
    /\ c2s' = s.c2s
    /\ s2c' = s.s2c
    /\ peer_sent' = s.peer_sent
    /\ reactor_in' = s.reactor_in
    /\ log' = s.log
    /\ last' = s.last
    /\ last_reset' = s.last_reset
    /\ timeouts' = s.timeouts

\* ------------------------------------------------------------------- server
\* _reset that forgets the connection but keeps what was buffered for it.
ResetKeepsPartial(s, cause) ==
    [s EXCEPT !.holding = FALSE,
              !.srv_closed = IF s.conn = None THEN @ ELSE [@ EXCEPT ![s.conn] = TRUE],
              !.conn = None,
              !.blocking = FALSE,
              !.send_buf = << >>,
              !.last_reset = [cause |-> cause,
                              mid |-> (s.expect_len # NoLen /\ Len(s.recv_buf) < s.expect_len)
                                      \/ (s.pc = "recv_body")]]

\* Server._reset; cause says which failure led here
Reset(s, cause) ==
    [s EXCEPT !.holding = FALSE,
              !.srv_closed = IF s.conn = None THEN @ ELSE [@ EXCEPT ![s.conn] = TRUE],
              !.conn = None,
              !.blocking = FALSE,
              !.recv_buf = << >>,
              !.send_buf = << >>,
              !.expect_len = NoLen,
              !.last_reset = [cause |-> cause,
                              mid |-> (s.expect_len # NoLen /\ Len(s.recv_buf) < s.expect_len)
                                      \/ (s.pc = "recv_body")]]

\* Server._send_message
SendMessage(s, obj) ==
    LET payload == JsonDumps(obj)
    IN  [s EXCEPT !.send_buf = @ \o StructPack(Len(payload)) \o payload,
                  !.log = Append(@, [ev |-> "resp", conn |-> s.conn, body |-> s.cur,
                                     depth |-> Len(s.stack), obj |-> obj])]

\* Server._send_result
SendResult(s, request_id, value) ==
    SendMessage(s, [type |-> R_RESULT, id |-> request_id, value |-> value])

\* _send_error that does not pass the request id on.
SendErrorNoId(s, request_id, traceback_str) ==
    SendMessage(s, [type |-> R_ERROR, id |-> None, value |-> traceback_str])

\* Server._send_error
SendError(s, request_id, traceback_str) ==
    SendMessage(s, [type |-> R_ERROR, id |-> request_id, value |-> traceback_str])

\* raise inside a handler
Raise(s, what) == [s EXCEPT !.exc = what]

\* Bytes sendall has written of n when it raises on a slow peer: half, rounded down.
PartWrite(n) == n \div 2

\* Server._flush_blocking: sendall writes everything, or raises: when the peer has
\* aborted the connection, and when the peer does not read (socket.timeout on the
\* socket of the Hold Sub-loop, BlockingIOError on the non-blocking one), after it
\* has written nothing or a part.  The buffer is cleared only when sendall returns.
FlushBlocking(s) ==
    IF s.conn = None \/ s.send_buf = << >> THEN s
    ELSE IF peer[s.conn] \in {"reset", "stalled"} THEN Raise(s, E_IO)
    ELSE IF peer[s.conn] = "slow"
    THEN Raise([s EXCEPT !.s2c = [@ EXCEPT ![s.conn] =
                                      @ \o Take(s.send_buf, PartWrite(Len(s.send_buf)))]],
               E_IO)
    ELSE [s EXCEPT !.s2c = [@ EXCEPT ![s.conn] = @ \o s.send_buf],
                   !.send_buf = << >>]

\* func(*args) of the external registry
Invoke(func) ==
    IF func = "RPR_raise" THEN [raised |-> TRUE, value |-> None]
    ELSE [raised |-> FALSE, value |-> V_OK]

\* Server._handle_call
HandleCall(s, request) ==
    IF ~ArgsIsList(request) THEN Raise(s, E_ARGS)
    ELSE LET func == GetCallable(ReqName(request))
         IN  IF func = "None" THEN Raise(s, E_NAME)
             ELSE IF Invoke(func).raised THEN Raise(s, E_INVOKE)
             ELSE SendResult(s, request.id, Invoke(func).value)

\* Server._hold_loop up to its while: the socket is made blocking and the frame is
\* pushed; the loop itself runs in the actions HoldCheck, HoldRecvHeader, HoldRecvBody.
HoldLoopEnter(s) ==
    IF s.conn = None THEN s
    ELSE [s EXCEPT !.blocking = TRUE,
                   !.stack = Append(@, [id |-> s.rid, body |-> s.cur, conn |-> s.conn]),
                   !.timeouts = 0,
                   !.pc = "hold_check"]

\* Server._handle_hold
HandleHold(s, request) ==
    LET s1 == SendResult([s EXCEPT !.holding = TRUE], request.id, None)
        s2 == FlushBlocking(s1)
    IN  IF s2.exc # 0 THEN s2 ELSE HoldLoopEnter(s2)

\* _handle_release that clears the flag and answers nothing.
HandleReleaseSilent(s, request) == [s EXCEPT !.holding = FALSE]

\* Server._handle_release
HandleRelease(s, request) ==
    SendResult([s EXCEPT !.holding = FALSE], request.id, None)

\* Server._handle_control
HandleControl(s, request) ==
    IF ReqCmd(request) = "HOLD" THEN HandleHold(s, request)
    ELSE IF ReqCmd(request) = "RELEASE" THEN HandleRelease(s, request)
    ELSE Raise(s, E_CMD)

\* the except clause of Server._handle
HandleExcept(s) ==
    IF s.exc # 0 THEN SendError([s EXCEPT !.exc = 0], s.rid, s.exc) ELSE s

\* the try block of Server._handle
HandleTry(s, body) ==
    LET request == JsonLoads(body)
    IN  IF ~request.ok \/ ~request.dict THEN Raise(s, E_PARSE)
        ELSE LET s1 == [s EXCEPT !.rid = request.id]
             IN  IF ReqType(request) = "call" THEN HandleCall(s1, request)
                 ELSE IF ReqType(request) = "control" THEN HandleControl(s1, request)
                 ELSE Raise(s1, E_TYPE)

\* What `last` keeps of the server around one request.
Snapshot(s0, s1, body) ==
    [body |-> body, depth |-> Len(s0.stack), conn |-> s0.conn, conn2 |-> s1.conn,
     holding |-> s0.holding, holding2 |-> s1.holding,
     recv_buf |-> s0.recv_buf, recv_buf2 |-> s1.recv_buf,
     expect_len |-> s0.expect_len, expect_len2 |-> s1.expect_len,
     send_buf |-> s0.send_buf, send_buf2 |-> s1.send_buf,
     blocking |-> s0.blocking, blocking2 |-> s1.blocking,
     nresp |-> Len(s1.log) - Len(s0.log) - 1]

\* Server._handle, until it returns or enters the Hold Sub-loop
Handle(s0, body) ==
    LET s == [s0 EXCEPT !.cur = body, !.rid = None, !.exc = 0,
                        !.log = Append(@, [ev |-> "req", conn |-> s0.conn, body |-> body,
                                           depth |-> Len(s0.stack), obj |-> NoObj])]
        r == HandleExcept(HandleTry(s, body))
    IN  [r EXCEPT !.last = Snapshot(s0, r, body)]

\* ------------------------------------------------------------ Server.run
\* What is kept of the connections before k once connection k is accepted: nothing.
Forget(f, k) == [i \in Conns |-> IF i < k THEN << >> ELSE f[i]]

\* Server.run accepting in every tick, whether or not it has a connection.
AcceptAlways(s) ==
    IF s.backlog # << >>
    THEN LET k == Head(s.backlog)
         IN  [s EXCEPT !.conn = k, !.backlog = Tail(s.backlog), !.blocking = FALSE,
                       !.c2s = Forget(@, k), !.s2c = Forget(@, k),
                       !.peer_sent = Forget(@, k), !.reactor_in = Forget(@, k),
                       !.log = << >>]
    ELSE s

\* step 1 of Server.run: accept when there is no connection.  The histories kept for
\* the properties start afresh with the new connection.
Accept(s) ==
    IF s.conn = None /\ s.backlog # << >>
    THEN LET k == Head(s.backlog)
         IN  [s EXCEPT !.conn = k, !.backlog = Tail(s.backlog), !.blocking = FALSE,
                       !.c2s = Forget(@, k), !.s2c = Forget(@, k),
                       !.peer_sent = Forget(@, k), !.reactor_in = Forget(@, k),
                       !.log = << >>]
    ELSE s

\* Bytes a single conn.recv(4096) may return now.
Avail(s) == IF s.conn = None THEN 0 ELSE Min(RECV_SIZE, Len(s.c2s[s.conn]))

\* step 2 of Server.run: one conn.recv(4096) returning k bytes; k = 0 is "would
\* block", or end of stream once the peer has closed and nothing is left to read.
ReactorRecv(s, k) ==
    IF s.conn = None THEN s
    ELSE IF peer[s.conn] = "reset" THEN Reset(s, "recv_error")
    ELSE IF k > 0
    THEN [s EXCEPT !.recv_buf = @ \o Take(s.c2s[s.conn], k),
                   !.reactor_in = [@ EXCEPT ![s.conn] = @ \o Take(s.c2s[s.conn], k)],
                   !.c2s = [@ EXCEPT ![s.conn] = Drop(@, k)]]
    ELSE IF peer[s.conn] = "closed" /\ s.c2s[s.conn] = << >> THEN Reset(s, "recv_eof")
    ELSE IF s.blocking THEN Reset(s, "recv_error")
    ELSE s

\* The dispatch loop without the wait for the whole body: what is buffered is taken
\* as the payload as soon as the length is known.
NextFrameNoWait(s) ==
    LET s1 == IF s.expect_len = NoLen /\ Len(s.recv_buf) >= HDR_LEN
              THEN [s EXCEPT !.expect_len = StructUnpack(Take(s.recv_buf, HDR_LEN)),
                             !.recv_buf = Drop(@, HDR_LEN)]
              ELSE s
    IN  IF s1.expect_len = NoLen
        THEN [found |-> FALSE, body |-> << >>, s |-> s1]
        ELSE [found |-> TRUE, body |-> Take(s1.recv_buf, s1.expect_len),
              s |-> [s1 EXCEPT !.recv_buf = Drop(@, s1.expect_len),
                               !.expect_len = NoLen]]

\* lines 199-211 of Server.run: the next complete frame of the receive buffer, if any
NextFrame(s) ==
    LET s1 == IF s.expect_len = NoLen /\ Len(s.recv_buf) >= HDR_LEN
              THEN [s EXCEPT !.expect_len = StructUnpack(Take(s.recv_buf, HDR_LEN)),
                             !.recv_buf = Drop(@, HDR_LEN)]
              ELSE s
    IN  IF s1.expect_len = NoLen \/ Len(s1.recv_buf) < s1.expect_len
        THEN [found |-> FALSE, body |-> << >>, s |-> s1]
        ELSE [found |-> TRUE, body |-> Take(s1.recv_buf, s1.expect_len),
              s |-> [s1 EXCEPT !.recv_buf = Drop(@, s1.expect_len),
                               !.expect_len = NoLen]]

\* step 3 of Server.run: dispatch every complete frame, until none is left, the
\* connection is gone, or a HOLD has taken the tick into the Hold Sub-loop.
RECURSIVE Drain(_)
Drain(s) ==
    IF s.conn = None THEN s
    ELSE LET f == NextFrame(s)
         IN  IF ~f.found THEN f.s
             ELSE LET h == Handle(f.s, f.body)
                  IN  IF h.pc = "hold_check" THEN h ELSE Drain(h)

\* What one conn.send may do with a non-empty buffer: raise BlockingIOError, accept
\* a part of it, accept everything.
SendChoices == {"block", "short", "all"}

\* Bytes a short write takes of n: half of them, rounded up.
ShortWrite(n) == (n + 1) \div 2

\* What conn.send does when the peer decides it: nothing is accepted by a stalled
\* peer, a part by a slow one.
SendChoice(s, j) ==
    IF peer[s.conn] = "stalled" THEN "block"
    ELSE IF peer[s.conn] = "slow" THEN "short"
    ELSE j

\* step 4 of Server.run: one conn.send
FinalSend(s, j) ==
    IF s.conn = None \/ s.send_buf = << >> THEN s
    ELSE IF peer[s.conn] = "reset" THEN Reset(s, "send_error")
    ELSE IF SendChoice(s, j) = "block"
    THEN (IF s.blocking THEN Reset(s, "send_error") ELSE s)
    ELSE LET sent == IF SendChoice(s, j) = "short" THEN ShortWrite(Len(s.send_buf))
                     ELSE Len(s.send_buf)
         IN  [s EXCEPT !.s2c = [@ EXCEPT ![s.conn] = @ \o Take(s.send_buf, sent)],
                       !.send_buf = Drop(@, sent)]

\* Server.run from its dispatch loop on; the tick returns unless a HOLD was dispatched
FinishTick(s, j) ==
    LET d == Drain([s EXCEPT !.pc = "drain"])
    IN  IF d.pc = "hold_check" THEN d
        ELSE [FinalSend(d, j) EXCEPT !.pc = "idle"]

\* --------------------------------------------------- Server._hold_loop
\* _hold_loop without its finally clause: the socket keeps its mode.
FinallyKeepsMode(s) == s

\* the finally clause of _hold_loop
Finally(s) == IF s.conn # None THEN [s EXCEPT !.blocking = FALSE] ELSE s

Pop(s) == [s EXCEPT !.stack = SubSeq(@, 1, Len(@) - 1)]

RECURSIVE AfterHandle(_), LoopRaise(_)

\* _handle has returned: to Server.run when no _hold_loop is active, else to line 101
\* of the innermost _hold_loop, which flushes and goes back to its while.
AfterHandle(s) ==
    IF s.stack = << >> THEN [s EXCEPT !.pc = "drain"]
    ELSE LET f == FlushBlocking(s)
         IN  IF f.exc # 0 THEN LoopRaise(f) ELSE [f EXCEPT !.pc = "hold_check"]

\* An exception leaves the innermost _hold_loop: its finally runs, and the _handle
\* that dispatched its HOLD catches it and answers with an error.
LoopRaise(s) ==
    LET top == s.stack[Len(s.stack)]
        s1 == Pop(Finally(s))
        s2 == HandleExcept([s1 EXCEPT !.cur = top.body, !.rid = top.id])
    IN  AfterHandle(s2)

\* The innermost _hold_loop returns (while condition false, or return after _reset).
LoopExit(s) == AfterHandle(Pop(Finally(s)))

\* the rest of the tick once control is back in Server.run
Resume(s, j) == IF s.pc = "drain" THEN FinishTick(s, j) ELSE s

\* Server._recv_exact(n) as one blocking read: "data" when n bytes are there (n = 0
\* returns without reading),
\* "eof" when the peer has closed with fewer, "error" when the peer has aborted or
\* the socket is non-blocking and has fewer (BlockingIOError is no SocketTimeout),
\* "timeout" otherwise.
RecvExact(s, n) ==
    IF n = 0 THEN "data"
    ELSE IF peer[s.conn] = "reset" THEN "error"
    ELSE IF Len(s.c2s[s.conn]) >= n THEN "data"
    ELSE IF peer[s.conn] = "closed" THEN "eof"
    ELSE IF ~s.blocking THEN "error"
    ELSE "timeout"

\* ------------------------------------------------------------------ actions
\* One tick: Server.run, up to its return or to the first blocking read of a hold.
Run ==
    /\ pc = "idle"
    /\ LET a == Accept(S)
       IN  \E k \in 0 .. Avail(a) : \E j \in SendChoices :
               Commit(FinishTick(ReactorRecv(a, k), j))
    /\ UNCHANGED << net_vars, cl_vars >>

\* line 93: while self._holding and self._conn is conn
HoldCheck ==
    /\ pc = "hold_check"
    /\ LET top == stack[Len(stack)]
       IN  IF holding /\ conn = top.conn
           THEN Commit([S EXCEPT !.pc = "recv_hdr", !.timeouts = 0])
           ELSE \E j \in SendChoices : Commit(Resume(LoopExit(S), j))
    /\ UNCHANGED << net_vars, cl_vars >>

\* line 81: raw = self._recv_exact(4)
HoldRecvHeader ==
    /\ pc = "recv_hdr"
    /\ LET r == RecvExact(S, HDR_LEN)
       IN  CASE r = "data" ->
                    Commit([S EXCEPT !.hold_n = StructUnpack(Take(c2s[conn], HDR_LEN)),
                                     !.c2s = [@ EXCEPT ![conn] = Drop(@, HDR_LEN)],
                                     !.timeouts = 0,
                                     !.pc = "recv_body"])
             [] r = "timeout" ->
                    /\ timeouts < MaxTimeouts
                    /\ Commit([S EXCEPT !.timeouts = @ + 1])
             [] OTHER ->
                    \E j \in SendChoices :
                        Commit(Resume(LoopExit(Reset(S, IF r = "eof" THEN "hold_eof"
                                                        ELSE "hold_error")), j))
    /\ UNCHANGED << net_vars, cl_vars >>

\* line 83: return self._recv_exact(n); then lines 100-101: _handle and flush
HoldRecvBody ==
    /\ pc = "recv_body"
    /\ LET r == RecvExact(S, hold_n)
       IN  CASE r = "data" ->
                    LET body == Take(c2s[conn], hold_n)
                        s == [S EXCEPT !.c2s = [@ EXCEPT ![conn] = Drop(@, hold_n)],
                                       !.timeouts = 0, !.hold_n = 0, !.pc = "handle"]
                        h == Handle(s, body)
                    IN  IF h.pc = "hold_check" THEN Commit(h)
                        ELSE \E j \in SendChoices : Commit(Resume(AfterHandle(h), j))
             [] r = "timeout" ->
                    /\ timeouts < MaxTimeouts
                    /\ Commit([S EXCEPT !.timeouts = @ + 1])
             [] OTHER ->
                    \E j \in SendChoices :
                        Commit(Resume(LoopExit(Reset([S EXCEPT !.hold_n = 0],
                                                     IF r = "eof" THEN "hold_eof"
                                                     ELSE "hold_error")), j))
    /\ UNCHANGED << net_vars, cl_vars >>

Server == Run \/ HoldCheck \/ HoldRecvHeader \/ HoldRecvBody

\* --------------------------------------------------------- an arbitrary peer
\* Request kinds the peer sends, and the payloads of its n-th frame: a request with
\* id n, an object without id and with an unsupported type, and text that is no JSON.
PeerKinds == {K_CALL_OK, K_CALL_MISSING, K_HOLD, K_RELEASE}

PeerPayloads(n) ==
    {<< k, n >> : k \in PeerKinds} \cup {<< K_BADTYPE, None >>, << >>}

\* Bytes of an unfinished frame the peer may leave behind when it closes: none, or
\* a length prefix and half a body.
PartialLens == {0, 5}

PartialFrame(n) == Take(Frame(<< K_CALL_OK, 99 >>), n)

\* The peer opens its connections one after the other.
PeerConnect ==
    /\ nconn < MaxConns
    /\ nconn > 0 => peer[nconn] \notin {"open", "stalled", "slow"}
    /\ nconn' = nconn + 1
    /\ peer' = [peer EXCEPT ![nconn + 1] = "open"]
    /\ Commit([S EXCEPT !.backlog = Append(@, nconn + 1)])
    /\ UNCHANGED << nframes, cl_vars >>

PeerSendUpTo(max) ==
    /\ nconn > 0
    /\ peer[nconn] = "open"
    /\ nframes < max
    /\ nframes' = nframes + 1
    /\ \E p \in PeerPayloads(nframes + 1) :
          Commit([S EXCEPT !.c2s = [@ EXCEPT ![nconn] = @ \o Frame(p)],
                           !.peer_sent = [@ EXCEPT ![nconn] = Append(@, p)]])
    /\ UNCHANGED << nconn, peer, cl_vars >>

PeerSend == PeerSendUpTo(MaxFrames)

PeerSendFew == PeerSendUpTo(MaxFailFrames)

\* close(): the bytes sent so far still arrive, then end of stream
PeerClose ==
    /\ nconn > 0
    /\ peer[nconn] = "open"
    /\ peer' = [peer EXCEPT ![nconn] = "closed"]
    /\ \E n \in PartialLens :
          Commit([S EXCEPT !.c2s = [@ EXCEPT ![nconn] = @ \o PartialFrame(n)]])
    /\ UNCHANGED << nconn, nframes, cl_vars >>

\* The connection is aborted (RST): unread bytes are lost and every later socket
\* call of the server on it raises.
PeerAbort ==
    /\ nconn > 0
    /\ peer[nconn] \in {"open", "closed"}
    /\ peer' = [peer EXCEPT ![nconn] = "reset"]
    /\ Commit([S EXCEPT !.c2s = [@ EXCEPT ![nconn] = << >>]])
    /\ UNCHANGED << nconn, nframes, cl_vars >>

\* A peer that sends well-formed bursts only: calls of a registered function, HOLD
\* and RELEASE, the n-th frame with id n.
BurstKinds == {K_CALL_OK, K_HOLD, K_RELEASE}

PeerSendBurst ==
    /\ nconn > 0
    /\ peer[nconn] = "open"
    /\ nframes < MaxFrames
    /\ nframes' = nframes + 1
    /\ \E k \in BurstKinds :
          Commit([S EXCEPT !.c2s = [@ EXCEPT ![nconn] = @ \o Frame(<< k, nframes + 1 >>)],
                           !.peer_sent = [@ EXCEPT ![nconn] =
                                              Append(@, << k, nframes + 1 >>)]])
    /\ UNCHANGED << nconn, peer, cl_vars >>

\* The peer stops reading: its receive window is full at once, or after a part of
\* the next write.
PeerStall ==
    /\ nconn > 0
    /\ peer[nconn] = "open"
    /\ \E how \in {"stalled", "slow"} : peer' = [peer EXCEPT ![nconn] = how]
    /\ UNCHANGED << srv_vars, nconn, nframes, cl_vars >>

\* The peer reads again.
PeerResume ==
    /\ nconn > 0
    /\ peer[nconn] \in {"stalled", "slow"}
    /\ peer' = [peer EXCEPT ![nconn] = "open"]
    /\ UNCHANGED << srv_vars, nconn, nframes, cl_vars >>

\* ------------------------------------------------------------- the client
NoReq == [op |-> "none", id |-> None]

NoDone == [op |-> "none", id |-> None, outcome |-> "none", value |-> None,
           resp |-> NoObj, sent |-> FALSE, holding |-> FALSE, next_id |-> None]

\* The client and its sockets as one value.
C ==
    [conn |-> cl_conn, next_request_id |-> cl_next_request_id, holding |-> cl_holding,
     pc |-> cl_pc, req |-> cl_req, roff |-> cl_roff, scope |-> cl_scope,
     done |-> cl_done, ops |-> cl_ops,
     nconn |-> nconn, peer |-> peer, nframes |-> nframes,
     backlog |-> backlog, c2s |-> c2s, peer_sent |-> peer_sent]

CommitClient(c) ==
    /\ cl_conn' = c.conn
    /\ cl_next_request_id' = c.next_request_id
    /\ cl_holding' = c.holding
    /\ cl_pc' = c.pc
    /\ cl_req' = c.req
    /\ cl_roff' = c.roff
    /\ cl_scope' = c.scope
    /\ cl_done' = c.done
    /\ cl_ops' = c.ops
    /\ nconn' = c.nconn
    /\ peer' = c.peer
    /\ nframes' = c.nframes
    /\ Commit([S EXCEPT !.backlog = c.backlog, !.c2s = c.c2s, !.peer_sent = c.peer_sent])

\* connect() that opens a socket whether or not there is one.
ConnectAgain(c) ==
    [c EXCEPT !.conn = c.nconn + 1,
              !.nconn = @ + 1,
              !.peer = [@ EXCEPT ![c.nconn + 1] = "open"],
              !.backlog = Append(@, c.nconn + 1),
              !.roff = 0]

\* Client.connect
Connect(c) ==
    IF c.conn # None THEN c
    ELSE [c EXCEPT !.conn = c.nconn + 1,
                   !.nconn = @ + 1,
                   !.peer = [@ EXCEPT ![c.nconn + 1] = "open"],
                   !.backlog = Append(@, c.nconn + 1),
                   !.roff = 0]

\* Client.close
Close(c) ==
    IF c.conn = None THEN c
    ELSE [c EXCEPT !.peer = [@ EXCEPT ![c.conn] = "closed"],
                   !.conn = None,
                   !.holding = FALSE]

\* Client._send_message: connect if needed, then sendall of prefix and data
ClientSendMessage(c, data) ==
    LET c1 == Connect(c)
    IN  [c1 EXCEPT !.c2s = [@ EXCEPT ![c1.conn] = @ \o StructPack(Len(data)) \o data],
                   !.peer_sent = [@ EXCEPT ![c1.conn] = Append(@, data)],
                   !.nframes = @ + 1]

\* The request part of Client.call and Client._send_control: the next id is taken,
\* the request is sent, and the client waits for a response.
SendRequest(c, op, kind) ==
    LET request_id == c.next_request_id
        c1 == [c EXCEPT !.next_request_id = @ + 1]
        c2 == ClientSendMessage(c1, << kind, request_id >>)
    IN  [c2 EXCEPT !.pc = "recv", !.req = [op |-> op, id |-> request_id]]

\* An operation has ended: what it was and how it ended.
Done(c, op, id, outcome, value, resp, sent) ==
    [c EXCEPT !.pc = "ready", !.req = NoReq,
              !.done = [op |-> op, id |-> id, outcome |-> outcome, value |-> value,
                        resp |-> resp, sent |-> sent, holding |-> c.holding,
                        next_id |-> c.next_request_id]]

\* _handle without the comparison of the ids.
ClientHandleAnyId(resp, expected_id) ==
    IF resp.type = R_RESULT THEN [outcome |-> "ok", value |-> resp.value]
    ELSE IF resp.type = R_ERROR THEN [outcome |-> "server_error", value |-> None]
    ELSE [outcome |-> "unknown_response", value |-> None]

\* Client._handle
ClientHandle(resp, expected_id) ==
    IF expected_id # None /\ resp.id # expected_id
    THEN [outcome |-> "mismatch", value |-> None]
    ELSE IF resp.type = R_RESULT THEN [outcome |-> "ok", value |-> resp.value]
    ELSE IF resp.type = R_ERROR THEN [outcome |-> "server_error", value |-> None]
    ELSE [outcome |-> "unknown_response", value |-> None]

\* Client._recv_message followed by Client._handle, as one blocking read of the
\* bytes the server has written and the client has not read yet.
Receive(unread, server_closed, expected_id) ==
    LET n == IF Len(unread) >= HDR_LEN THEN StructUnpack(Take(unread, HDR_LEN)) ELSE 0
    IN  IF Len(unread) >= HDR_LEN /\ Len(unread) >= HDR_LEN + n
        THEN LET resp == JsonLoadsResp(SubSeq(unread, HDR_LEN + 1, HDR_LEN + n))
                 h == ClientHandle(resp, expected_id)
             IN  IF ~resp.ok \/ ~resp.dict
                 THEN [outcome |-> "invalid_response", value |-> None, resp |-> NoObj,
                       used |-> HDR_LEN + n]
                 ELSE [outcome |-> h.outcome, value |-> h.value,
                       resp |-> [type |-> resp.type, id |-> resp.id, value |-> resp.value],
                       used |-> HDR_LEN + n]
        ELSE [outcome |-> IF server_closed THEN "connection_lost" ELSE "timeout",
              value |-> None, resp |-> NoObj, used |-> Len(unread)]

\* What follows the exchange in the operation that made it: hold() marks the client
\* as holding and enters the scope only when HOLD was acknowledged; release() clears
\* the flag in its finally clause.
AfterExchange(c, op, outcome) ==
    IF op = "hold" /\ outcome = "ok" THEN [c EXCEPT !.holding = TRUE, !.scope = TRUE]
    ELSE IF op = "release" THEN [c EXCEPT !.holding = FALSE, !.scope = FALSE]
    ELSE c

\* hold() without the test of the holding flag.
HoldUnguarded(c) == SendRequest(c, "hold", K_HOLD)

\* Entering the context manager of Client.hold: RuntimeError when the client is
\* holding already, else the HOLD request is sent.
Hold(c) ==
    IF c.holding
    THEN Done(c, "hold", None, "invalid_state", None, NoObj, FALSE)
    ELSE SendRequest(c, "hold", K_HOLD)

\* Request kinds the client program passes to call()
ClientKinds == {K_CALL_OK, K_CALL_MISSING}

\* client.connect()
ClConnect ==
    /\ cl_pc = "ready" /\ cl_ops < MaxOps
    /\ cl_conn = None => nconn < MaxConns
    /\ LET c == Connect(C)
       IN  CommitClient(Done([c EXCEPT !.ops = @ + 1], "connect", None, "ok", None,
                             NoObj, FALSE))

\* client.close(); the body of a hold scope makes calls only
ClClose ==
    /\ cl_pc = "ready" /\ cl_ops < MaxOps /\ ~cl_scope
    /\ LET c == Close(C)
       IN  CommitClient(Done([c EXCEPT !.ops = @ + 1], "close", None, "ok", None,
                             NoObj, FALSE))

\* client.close() called by the body of a hold scope
ClCloseHeld ==
    /\ cl_pc = "ready" /\ cl_ops < MaxOps /\ cl_scope
    /\ LET c == Close(C)
       IN  CommitClient(Done([c EXCEPT !.ops = @ + 1], "close", None, "ok", None,
                             NoObj, FALSE))

\* client.call(name, ...) up to the wait for the response
ClCall ==
    /\ cl_pc = "ready" /\ cl_ops < MaxOps
    /\ cl_conn = None => nconn < MaxConns
    /\ \E kind \in ClientKinds :
          CommitClient(SendRequest([C EXCEPT !.ops = @ + 1], "call", kind))

\* entering `with hold():`, up to the wait for the response to HOLD
ClHold ==
    /\ cl_pc = "ready" /\ cl_ops < MaxOps
    /\ cl_conn = None => nconn < MaxConns
    /\ CommitClient(Hold([C EXCEPT !.ops = @ + 1]))

\* leaving the scope, normally or by an exception: the finally clause calls release()
ClScopeExit ==
    /\ cl_pc = "ready" /\ cl_scope
    /\ IF ~cl_holding
       THEN CommitClient(Done([C EXCEPT !.scope = FALSE], "release", None, "ok", None,
                              NoObj, FALSE))
       ELSE CommitClient(SendRequest(C, "release", K_RELEASE))

\* The blocking read of the response returns or raises.
ClRecv ==
    /\ cl_pc = "recv"
    /\ LET r == Receive(Drop(s2c[cl_conn], cl_roff), srv_closed[cl_conn], cl_req.id)
           c == AfterExchange([C EXCEPT !.roff = @ + r.used], cl_req.op, r.outcome)
       IN  CommitClient(Done(c, cl_req.op, cl_req.id, r.outcome, r.value, r.resp, TRUE))

Client == ClConnect \/ ClClose \/ ClCall \/ ClHold \/ ClScopeExit \/ ClRecv

\* ------------------------------------------------------------ specification
Init ==
    /\ conn = None
    /\ recv_buf = << >>
    /\ send_buf = << >>
    /\ expect_len = NoLen
    /\ holding = FALSE
    /\ blocking = FALSE
    /\ pc = "idle"
    /\ stack = << >>
    /\ hold_n = 0
    /\ backlog = << >>
    /\ nconn = 0
    /\ nframes = 0
    /\ peer = [k \in Conns |-> "none"]
    /\ srv_closed = [k \in Conns |-> FALSE]
    /\ c2s = [k \in Conns |-> << >>]
    /\ s2c = [k \in Conns |-> << >>]
    /\ peer_sent = [k \in Conns |-> << >>]
    /\ reactor_in = [k \in Conns |-> << >>]
    /\ log = << >>
    /\ last = NoLast
    /\ last_reset = NoReset
    /\ timeouts = 0
    /\ cl_conn = None
    /\ cl_next_request_id = FIRST_ID
    /\ cl_holding = FALSE
    /\ cl_pc = "ready"
    /\ cl_req = NoReq
    /\ cl_roff = 0
    /\ cl_scope = FALSE
    /\ cl_done = NoDone
    /\ cl_ops = 0

\* The server and a peer that pipelines frames on one connection it keeps open.
Next == Server \/ PeerConnect \/ PeerSend

Spec == Init /\ [][Next]_vars

\* The server and a peer that also closes, aborts and reconnects.
NextFail == Server \/ PeerConnect \/ PeerSendFew \/ PeerClose \/ PeerAbort

SpecFail == Init /\ [][NextFail]_vars

\* The server and a peer that at times does not read what the server writes.
NextStall == Server \/ PeerConnect \/ PeerSendBurst \/ PeerStall \/ PeerResume

SpecStall == Init /\ [][NextStall]_vars

\* The server and the repository's client.  The host calls the tick again and again
\* and a running _hold_loop keeps running, so the server's steps are fair.
NextClient == Server \/ Client

SpecClient == Init /\ [][NextClient]_vars /\ WF_vars(Server)

\* The server and a client program that may also close the client inside a hold
\* scope.
NextClientAny == Server \/ Client \/ ClCloseHeld

SpecClientAny == Init /\ [][NextClientAny]_vars /\ WF_vars(Server)

\* ================================================================ properties
\* request.get("id") of a payload, None when the payload is no JSON object
IdOf(body) ==
    LET request == JsonLoads(body)
    IN  IF request.ok /\ request.dict THEN request.id ELSE None

ParsedAsObject(body) == JsonLoads(body).ok /\ JsonLoads(body).dict

IsResp(e) == e.ev = "resp"

IsReq(e) == e.ev = "req"

KindOf(body) == JsonLoads(body).kind

\* C1 (as amended): every response the server enqueues for a request, result or
\* error, in the reactor or in the Hold Sub-loop, carries the id member of that
\* request; it is null exactly when the payload is no JSON object or the object has
\* no id.
C1_ResponseCarriesRequestId ==
    \A i \in DOMAIN log :
        IsResp(log[i]) =>
            /\ log[i].obj.id = IdOf(log[i].body)
            /\ log[i].obj.id = None <=>
                   (~ParsedAsObject(log[i].body) \/ JsonLoads(log[i].body).id = None)

\* C1 as stated: the id is the request's whenever the payload parsed as an
\* object, and null only when it did not.
C1_NullIdOnlyWhenUnparsed ==
    \A i \in DOMAIN log :
        IsResp(log[i]) =>
            /\ ParsedAsObject(log[i].body) => log[i].obj.id = IdOf(log[i].body)
            /\ log[i].obj.id = None => ~ParsedAsObject(log[i].body)

\* An error response enqueued inside the Hold Sub-loop for a request with an id.
C1_Witness ==
    \E i \in DOMAIN log :
        /\ IsResp(log[i])
        /\ log[i].obj.type = R_ERROR
        /\ log[i].depth > 0
        /\ log[i].obj.id # None
        /\ log[i].obj.id = IdOf(log[i].body)

\* The ids of the requests of a sequence of payloads, and of the response frames
\* of a byte string.
RECURSIVE RequestIds(_)
RequestIds(payloads) ==
    IF payloads = << >> THEN << >>
    ELSE << IdOf(Head(payloads)) >> \o RequestIds(Tail(payloads))

RECURSIVE ResponseIds(_)
ResponseIds(frames) ==
    IF frames = << >> THEN << >>
    ELSE << JsonLoadsResp(Head(frames)).id >> \o ResponseIds(Tail(frames))

\* C2: on every connection the i-th response frame written to the wire answers the
\* i-th request frame the peer sent, however the requests are mixed and split.
C2_ResponsesInArrivalOrder ==
    \A k \in Conns :
        IsPrefix(ResponseIds(ParseFrames(s2c[k])), RequestIds(peer_sent[k]))

\* C4: a read timeout inside the Hold Sub-loop returns control to the loop, whose
\* exit condition is checked again before the next read attempt.
C4_TimeoutRechecksExit ==
    [][(pc \in {"recv_hdr", "recv_body"} /\ timeouts' = timeouts + 1)
           => pc' = "hold_check"]_vars

InHoldLoop == pc \in {"hold_check", "recv_hdr", "recv_body"}

\* The ids of the response frames written to the accepted connection.
WrittenIds == ResponseIds(ParseFrames(s2c[conn]))

InSeq(x, seq) == \E i \in DOMAIN seq : seq[i] = x

\* The part of C5 that does not depend on how the burst arrived: once a HOLD is
\* dispatched, the tick does not return on the live connection before a RELEASE has
\* been dispatched inside the Hold Sub-loop and answered on the wire; and whenever
\* the sub-loop is about to read, the response to the HOLD has been written.
C5_SubLoopKeepsTick ==
    /\ (pc = "idle" /\ conn # None) =>
           \A i \in DOMAIN log :
               (IsReq(log[i]) /\ KindOf(log[i].body) = K_HOLD) =>
                   \E j \in DOMAIN log :
                       /\ j > i
                       /\ IsReq(log[j])
                       /\ KindOf(log[j].body) = K_RELEASE
                       /\ log[j].depth > 0
                       /\ InSeq(IdOf(log[j].body), WrittenIds)
    /\ (InHoldLoop /\ conn # None) =>
           /\ send_buf = << >>
           /\ \A d \in DOMAIN stack : InSeq(stack[d].id, WrittenIds)

\* The HOLD frame at position p of what the peer sent has been dispatched.
HoldDispatched(p) ==
    /\ KindOf(peer_sent[conn][p]) = K_HOLD
    /\ \E i \in DOMAIN log : IsReq(log[i]) /\ log[i].body = peer_sent[conn][p]

\* C5: when the tick that dispatched a HOLD returns, every request that arrived up to
\* and including a RELEASE after that HOLD has been answered on the wire (each
\* request gets one response frame, so the q-th request is answered once q response
\* frames are written).
C5_BurstInsideOneTick ==
    (pc = "idle" /\ conn # None) =>
        \A p \in DOMAIN peer_sent[conn] :
            HoldDispatched(p) =>
                \E q \in DOMAIN peer_sent[conn] :
                    /\ q > p
                    /\ KindOf(peer_sent[conn][q]) = K_RELEASE
                    /\ Len(ParseFrames(s2c[conn])) >= q

\* A burst is over: HOLD, a call and RELEASE were dispatched, the call and the
\* RELEASE inside the Hold Sub-loop, and the tick has returned.
C5_Witness ==
    /\ pc = "idle" /\ conn # None
    /\ \E i, j, k \in DOMAIN log :
          /\ i < j /\ j < k
          /\ IsReq(log[i]) /\ KindOf(log[i].body) = K_HOLD /\ log[i].depth = 0
          /\ IsReq(log[j]) /\ KindOf(log[j].body) = K_CALL_OK /\ log[j].depth = 1
          /\ IsReq(log[k]) /\ KindOf(log[k].body) = K_RELEASE /\ log[k].depth = 1

FullyReset ==
    /\ conn = None
    /\ recv_buf = << >>
    /\ send_buf = << >>
    /\ expect_len = NoLen
    /\ ~holding

\* Bytes the blocking read in progress inside the Hold Sub-loop still needs.
HoldNeed == IF pc = "recv_hdr" THEN HDR_LEN ELSE IF pc = "recv_body" THEN hold_n ELSE 0

\* The server is about to read an end of stream: the peer has closed and the reactor
\* has nothing left to read, or the blocking read of the sub-loop cannot be completed.
AtEndOfStream ==
    /\ conn # None
    /\ peer[conn] = "closed"
    /\ \/ pc = "idle" /\ c2s[conn] = << >>
       \/ InHoldLoop /\ HoldNeed > 0 /\ Len(c2s[conn]) < HoldNeed

\* A step of the server: the peer neither connects, sends, closes nor aborts in it.
ServerStep == peer_sent' = peer_sent /\ peer' = peer /\ nconn' = nconn

\* The first request dispatched on the accepted connection is the first frame the
\* peer sent on it.
FirstFrameOfConnection ==
    (conn # None /\ log # << >>) =>
        /\ \A i \in DOMAIN log : log[i].conn = conn
        /\ peer_sent[conn] # << >>
        /\ log[1].body = peer_sent[conn][1]

\* C6: a step in which the server reads the end of stream, in the reactor or in the
\* Hold Sub-loop, with or without an unfinished message, is a full reset (no
\* connection, both buffers empty, no pending length, not holding); every _reset
\* leaves that state; and a connection accepted afterwards is parsed from its first
\* byte.
C6_PeerCloseResets ==
    /\ [][(AtEndOfStream /\ ServerStep) => FullyReset']_vars
    /\ [](last_reset.cause # "none" => FullyReset)
    /\ []FirstFrameOfConnection

\* The sub-loop has just reset on a close that left a message unfinished (length
\* prefix read, body incomplete).
C6_Witness ==
    /\ last_reset.cause = "hold_eof"
    /\ last_reset.mid
    /\ FullyReset

\* A second connection has been accepted and its first frame dispatched.
C6_SecondConnectionServed == conn = 2 /\ log # << >> /\ log[1].body = peer_sent[2][1]

\* C7: a call of a name that is not registered is answered by exactly one error
\* response with the request's id, and the handler leaves the connection, the
\* holding flag, the receive buffer, the pending length and the earlier content of
\* the send buffer as they were; the request after it is dispatched as usual.
C7_UnknownFunction ==
    /\ KindOf(last.body) = K_CALL_MISSING =>
           /\ last.nresp = 1
           /\ last.conn2 = last.conn
           /\ last.holding2 = last.holding
           /\ last.recv_buf2 = last.recv_buf
           /\ last.expect_len2 = last.expect_len
           /\ last.send_buf2 = last.send_buf
                  \o Frame(JsonDumps([type |-> R_ERROR, id |-> IdOf(last.body),
                                      value |-> E_NAME]))
    /\ \A i \in DOMAIN log :
           (IsReq(log[i]) /\ KindOf(log[i].body) = K_CALL_MISSING) =>
               /\ i + 1 \in DOMAIN log
               /\ IsResp(log[i + 1])
               /\ log[i + 1].body = log[i].body
               /\ log[i + 1].obj = [type |-> R_ERROR, id |-> IdOf(log[i].body),
                                    value |-> E_NAME]
               /\ (i + 2 \in DOMAIN log) => IsReq(log[i + 2])

\* Inside the Hold Sub-loop an unknown function was answered with an error and the
\* next call on the connection with a result.
C7_Witness ==
    \E i \in DOMAIN log :
        /\ IsReq(log[i]) /\ KindOf(log[i].body) = K_CALL_MISSING /\ log[i].depth = 1
        /\ i + 3 \in DOMAIN log
        /\ IsReq(log[i + 2]) /\ KindOf(log[i + 2].body) = K_CALL_OK
        /\ IsResp(log[i + 3]) /\ log[i + 3].obj.type = R_RESULT
        /\ log[i + 3].obj.id = IdOf(log[i + 2].body)

\* The payloads Server.run has dispatched on the accepted connection, in order.
RECURSIVE ReactorBodies(_)
ReactorBodies(lg) ==
    IF lg = << >> THEN << >>
    ELSE (IF IsReq(Head(lg)) /\ Head(lg).depth = 0 THEN << Head(lg).body >> ELSE << >>)
             \o ReactorBodies(Tail(lg))

\* What Server.run has read and not dispatched: the pending length and the buffer.
Pending ==
    (IF expect_len = NoLen THEN << >> ELSE StructPack(expect_len)) \o recv_buf

HoldSeen == \E i \in DOMAIN log : IsReq(log[i]) /\ KindOf(log[i].body) = K_HOLD

\* C10: the bytes Server.run has read on the connection, however they were split
\* over reads and ticks, are the encodings of the payloads it has dispatched, in
\* order, followed by what is still pending, and a returned tick leaves no complete
\* frame pending; so when all bytes of the peer's frames went through Server.run, it
\* has dispatched a prefix of exactly those payloads, each once.
C10_FramingRoundTrip ==
    conn # None =>
        /\ reactor_in[conn] = ConcatFrames(ReactorBodies(log)) \o Pending
        /\ pc = "idle" => ParseFrames(Pending) = << >>
        /\ ~HoldSeen =>
               /\ reactor_in[conn] \o c2s[conn] = ConcatFrames(peer_sent[conn])
               /\ IsPrefix(ReactorBodies(log), peer_sent[conn])
               /\ (pc = "idle" /\ c2s[conn] = << >> /\ Pending = << >>)
                      => ReactorBodies(log) = peer_sent[conn]

\* The empty payload and another one have been dispatched, and a read has ended in
\* the middle of the body of the next frame.
C10_Witness ==
    /\ conn # None /\ ~HoldSeen /\ pc = "idle"
    /\ Len(ReactorBodies(log)) >= 2
    /\ InSeq(<< >>, ReactorBodies(log))
    /\ expect_len # NoLen /\ recv_buf # << >> /\ Len(recv_buf) < expect_len

\* Every payload the peer sent has been dispatched.
C10_AllDispatched ==
    /\ conn # None /\ ~HoldSeen
    /\ Len(ReactorBodies(log)) = MaxFrames
    /\ ReactorBodies(log) = peer_sent[conn]

\* The client has just left a hold scope: release() has ended and no other operation
\* has started.
ScopeExited == cl_pc = "ready" /\ cl_done.op = "release"

\* The server has read everything the client sent and is waiting for more, between
\* ticks or in a blocking read of the Hold Sub-loop.
ServerCaughtUp ==
    /\ conn # None /\ conn = cl_conn
    /\ c2s[conn] = << >>
    /\ pc \in {"idle", "recv_hdr"}

\* C3: when a hold scope has been left, whatever the calls in it did, a RELEASE
\* request was sent (it is the last frame the client wrote), the client is not
\* holding, and the server, once it has processed what the client sent, is not
\* holding.
C3_HoldScopeEndsInRelease ==
    ScopeExited =>
        /\ cl_done.sent
        /\ peer_sent[cl_conn] # << >>
        /\ peer_sent[cl_conn][Len(peer_sent[cl_conn])] = << K_RELEASE, cl_done.id >>
        /\ ~cl_holding /\ ~cl_scope
        /\ ServerCaughtUp => ~holding

\* The client side of C3 alone.
C3_ClientSide ==
    ScopeExited =>
        /\ cl_done.sent
        /\ peer_sent[cl_conn] # << >>
        /\ peer_sent[cl_conn][Len(peer_sent[cl_conn])] = << K_RELEASE, cl_done.id >>
        /\ ~cl_holding /\ ~cl_scope

\* A scope has been left after RELEASE was acknowledged and the server is not holding.
C3_Witness ==
    /\ ScopeExited /\ cl_done.outcome = "ok"
    /\ ServerCaughtUp /\ ~holding

\* The exchanges of the client: call(), and the control exchange of hold() and
\* release().
Exchanged == cl_pc = "ready" /\ cl_done.op \in {"call", "hold", "release"} /\ cl_done.sent

\* C8: an exchange ends successfully only with a response whose id is the id of the
\* request just sent, and then call() returns that response's value; when the
\* response read has another id the operation ends with the mismatch error and
\* hands no value to the caller.
C8_ReturnsOnlyOnMatchingId ==
    Exchanged =>
        /\ cl_done.outcome = "ok" =>
               /\ cl_done.resp.type = R_RESULT
               /\ cl_done.resp.id = cl_done.id
               /\ cl_done.value = cl_done.resp.value
        /\ (cl_done.resp # NoObj /\ cl_done.resp.id # cl_done.id) =>
               /\ cl_done.outcome = "mismatch"
               /\ cl_done.value = None

\* call() has read the result of an earlier call, which carries a value, and has
\* ended with the mismatch error.
C8_Witness ==
    /\ Exchanged /\ cl_done.op = "call"
    /\ cl_done.outcome = "mismatch"
    /\ cl_done.resp.type = R_RESULT /\ cl_done.resp.value = V_OK
    /\ cl_done.resp.id # cl_done.id
    /\ cl_done.value = None

\* The client program has just entered hold() again.
HoldBegins ==
    /\ cl_pc = "ready"
    /\ cl_ops' = cl_ops + 1
    /\ \/ cl_pc' = "recv" /\ cl_req'.op = "hold"
       \/ cl_pc' = "ready" /\ cl_done'.op = "hold"

\* C9: hold() entered while the client is holding ends with the invalid-state error,
\* writes nothing to any socket, takes no request id, opens no connection and leaves
\* the client holding; and it is only while holding that hold() ends that way.
C9_NestedHoldFails ==
    /\ [][(HoldBegins /\ cl_holding) =>
              /\ cl_pc' = "ready"
              /\ cl_done'.outcome = "invalid_state"
              /\ ~cl_done'.sent
              /\ c2s' = c2s /\ peer_sent' = peer_sent /\ nframes' = nframes
              /\ cl_next_request_id' = cl_next_request_id
              /\ cl_conn' = cl_conn /\ nconn' = nconn
              /\ cl_holding' /\ cl_scope' = cl_scope]_vars
    /\ [][(HoldBegins /\ ~cl_holding) =>
              /\ cl_pc' = "recv"
              /\ cl_next_request_id' = cl_next_request_id + 1
              /\ peer_sent'[cl_conn'] = Append(peer_sent[cl_conn'], << K_HOLD, cl_next_request_id >>)]_vars

\* A nested hold() has failed inside a scope that is still active.
C9_Witness ==
    /\ cl_pc = "ready"
    /\ cl_done.op = "hold" /\ cl_done.outcome = "invalid_state"
    /\ cl_holding /\ cl_scope

\* connect() or close() has just been called.
ConnectCalled ==
    cl_pc = "ready" /\ cl_pc' = "ready" /\ cl_ops' = cl_ops + 1 /\ cl_done'.op = "connect"

CloseCalled ==
    cl_pc = "ready" /\ cl_pc' = "ready" /\ cl_ops' = cl_ops + 1 /\ cl_done'.op = "close"

\* What a client operation can change of the client and of its sockets.
ClientEffects ==
    << cl_conn, cl_holding, cl_next_request_id, cl_roff, nconn, peer, backlog, c2s,
       peer_sent, nframes >>

\* C11: connect() on a connected client opens no socket and changes nothing, close()
\* on a closed client changes nothing, and close() on a connected client closes its
\* socket and leaves the client without socket and not holding.
C11_ConnectCloseIdempotent ==
    /\ [][(ConnectCalled /\ cl_conn # None) => UNCHANGED ClientEffects]_vars
    /\ [][(ConnectCalled /\ cl_conn = None) =>
              /\ cl_conn' = nconn + 1 /\ nconn' = nconn + 1
              /\ peer'[cl_conn'] = "open"
              /\ backlog' = Append(backlog, cl_conn')]_vars
    /\ [][(CloseCalled /\ cl_conn = None) => UNCHANGED ClientEffects]_vars
    /\ [][(CloseCalled /\ cl_conn # None) =>
              /\ cl_conn' = None /\ ~cl_holding'
              /\ peer' = [peer EXCEPT ![cl_conn] = "closed"]
              /\ nconn' = nconn /\ cl_next_request_id' = cl_next_request_id]_vars

\* close() has been called on a holding client, and then once more.
C11_Witness ==
    /\ cl_pc = "ready" /\ cl_done.op = "close"
    /\ cl_conn = None /\ ~cl_holding /\ cl_scope
    /\ cl_ops = MaxOps
    /\ nconn = 1 /\ peer[1] = "closed"

\* A response that reports an exception of a socket call.
IsTransportError(e) == IsResp(e) /\ e.obj.type = R_ERROR /\ e.obj.value = E_IO

\* C12: no failure of a socket call is answered with an error response: the send
\* buffer never receives a response made from such an exception.
C12_TransportFailureResets == \A i \in DOMAIN log : ~IsTransportError(log[i])

\* A tick has returned after a blocking flush failed: the connection is still
\* there, not reset, and the error response made from the exception is queued on it.
C12_Witness ==
    /\ pc = "idle" /\ conn # None
    /\ \E i \in DOMAIN log : IsTransportError(log[i]) /\ log[i].conn = conn
    /\ send_buf # << >>

\* The payloads dispatched on the accepted connection, by Server.run and by the Hold
\* Sub-loop, in the order of dispatch.
RECURSIVE DispatchedBodies(_)
DispatchedBodies(lg) ==
    IF lg = << >> THEN << >>
    ELSE (IF IsReq(Head(lg)) THEN << Head(lg).body >> ELSE << >>)
             \o DispatchedBodies(Tail(lg))

\* C13: the bytes of a connection are interpreted in the order of their arrival, each
\* once, also where Server.run hands over to the Hold Sub-loop and back: the payloads
\* dispatched so far are the first frames the peer sent, in the peer's order.
C13_BytesInArrivalOrder ==
    conn # None => IsPrefix(DispatchedBodies(log), peer_sent[conn])

\* The Hold Sub-loop is reading from the socket while Server.run's buffer holds bytes
\* that arrived earlier.
C13_Witness ==
    /\ conn # None /\ pc = "recv_hdr"
    /\ (recv_buf # << >> \/ expect_len # NoLen)
    /\ c2s[conn] # << >>

\* The response frames enqueued on the accepted connection, in the order of
\* _send_message.
RECURSIVE EnqueuedFrames(_)
EnqueuedFrames(lg) ==
    IF lg = << >> THEN << >>
    ELSE (IF IsResp(Head(lg)) THEN Frame(JsonDumps(Head(lg).obj)) ELSE << >>)
             \o EnqueuedFrames(Tail(lg))

\* C14: what the server has written to the connection is a prefix of the enqueued
\* response frames in enqueue order, and the send buffer is the rest of them: no
\* byte is written twice or skipped, by conn.send or by the blocking flush.
C14_WritesArePrefix ==
    conn # None =>
        /\ IsPrefix(s2c[conn], EnqueuedFrames(log))
        /\ s2c[conn] \o send_buf = EnqueuedFrames(log)

\* A blocking flush has raised after writing a part of the buffer and the tick has
\* returned with the connection kept: written and queued bytes together are more
\* than was enqueued.
C14_Witness ==
    /\ conn # None /\ pc = "idle"
    /\ Len(s2c[conn]) + Len(send_buf) > Len(EnqueuedFrames(log))

\* C15: when a tick has returned and the server has a connection, the socket of that
\* connection is in non-blocking mode, however the Hold Sub-loop was left.
C15_NonBlockingBetweenTicks == (pc = "idle" /\ conn # None) => ~blocking

\* A tick has returned on a live connection after a flush inside the Hold Sub-loop
\* raised.
C15_Witness ==
    /\ pc = "idle" /\ conn # None /\ ~blocking
    /\ \E i \in DOMAIN log : IsTransportError(log[i]) /\ log[i].depth = 0
    /\ \E i \in DOMAIN log : IsReq(log[i]) /\ log[i].depth > 0

\* A tick has returned on a live connection after a nested HOLD and a RELEASE.
C15_NestedUnwound ==
    /\ pc = "idle" /\ conn # None /\ ~blocking
    /\ \E i \in DOMAIN log : IsReq(log[i]) /\ log[i].depth = 2

\* The request handled last was a RELEASE dispatched by Server.run, outside the Hold
\* Sub-loop, while the server was not holding.
ReleaseOutsideHold ==
    /\ KindOf(last.body) = K_RELEASE
    /\ last.depth = 0
    /\ last.conn # None /\ ~last.holding

\* C16: a RELEASE dispatched outside the Hold Sub-loop while the server is not holding
\* enqueues exactly one response, a result with the request's id and value null,
\* behind what the send buffer held, and leaves the holding flag false and the
\* connection, its mode, the receive buffer and the pending length as they were.
C16_ReleaseOutsideHoldIsNoOp ==
    ReleaseOutsideHold =>
        /\ last.nresp = 1
        /\ last.send_buf2 = last.send_buf
               \o Frame(JsonDumps([type |-> R_RESULT, id |-> IdOf(last.body),
                                   value |-> None]))
        /\ ~last.holding2
        /\ last.conn2 = last.conn
        /\ last.blocking2 = last.blocking
        /\ last.recv_buf2 = last.recv_buf
        /\ last.expect_len2 = last.expect_len

\* A RELEASE was dispatched by Server.run on a server that was not holding, with
\* more bytes behind it in the receive buffer, and the tick has returned.
C16_Witness ==
    /\ ReleaseOutsideHold
    /\ last.recv_buf # << >>
    /\ pc = "idle" /\ conn = last.conn /\ ~holding

\* The ids of the responses the client has read on its connection, and of the
\* requests it has sent on it.
ReadIds == ResponseIds(ParseFrames(Take(s2c[cl_conn], cl_roff)))

SentIds == RequestIds(peer_sent[cl_conn])

\* C17: while the client waits for a response, the request it has just sent is the
\* only one outstanding: the responses to all requests sent before it on the
\* connection have been read, in order.
C17_OneOutstandingRequest ==
    (cl_conn # None /\ cl_pc = "recv") =>
        ReadIds = SubSeq(SentIds, 1, Len(SentIds) - 1)

\* The client has sent a request while the response to an earlier request of the
\* same connection is unread.
C17_Witness ==
    /\ cl_conn # None /\ cl_pc = "recv"
    /\ Len(SentIds) >= 2
    /\ Len(ReadIds) < Len(SentIds) - 1

\* C18: the server has one connection at most.  A connection is taken from the
\* listen queue only by a tick that starts without one, so a connection the server
\* has is never replaced and a second attempt waits in the queue until the first
\* connection has been reset; a tick that starts without a connection accepts the
\* oldest waiting attempt.
C18_OneConnectionAtATime ==
    /\ [][conn # None => conn' \in {conn, None}]_vars
    /\ [][Len(backlog') < Len(backlog) =>
              /\ conn = None /\ pc = "idle"
              /\ backlog' = Tail(backlog)
              /\ conn' \in {Head(backlog), None}]_vars
    /\ [][(conn # None /\ backlog # << >>) => IsPrefix(backlog, backlog')]_vars
    /\ [][(pc = "idle" /\ conn = None /\ backlog # << >> /\ UNCHANGED net_vars) =>
              backlog' = Tail(backlog)]_vars

\* The second connection was accepted after the first one had been reset.
C18_Witness ==
    /\ conn = 2 /\ srv_closed[1] /\ ~srv_closed[2]
    /\ backlog = << >>

\* A second connection attempt waits in the listen queue while the server has the
\* first connection.
C18_SecondWaits == conn = 1 /\ backlog = << 2 >>

\* C19: the holding flag is true only while the Hold Sub-loop is executing; whenever
\* a tick has returned the flag is false, whichever way the HOLD handler was left.
C19_HoldingOnlyInSubLoop ==
    /\ holding => InHoldLoop
    /\ pc = "idle" => ~holding

\* The HOLD handler was left by an exception of _flush_blocking: the tick has
\* returned, the connection is live and the flag is still set.
C19_Witness ==
    /\ pc = "idle" /\ conn # None /\ holding
    /\ \E i \in DOMAIN log : IsTransportError(log[i])

\* The request a logged response answers: the latest request dispatched before it at
\* the same nesting depth of _handle.
Owner(lg, j) ==
    LET before == {i \in 1..(j - 1) : IsReq(lg[i]) /\ lg[i].depth = lg[j].depth}
    IN  IF before = {} THEN 0 ELSE CHOOSE i \in before : \A k \in before : k <= i

ResponsesTo(lg, i) == {j \in DOMAIN lg : IsResp(lg[j]) /\ Owner(lg, j) = i}

\* C20: every request frame dispatched on the connection the server still has was
\* answered by exactly one response frame, a result or an error, whatever the
\* request was (call, HOLD, RELEASE, HOLD while holding, malformed).
C20_OneResponsePerRequest ==
    conn # None =>
        \A i \in DOMAIN log :
            (IsReq(log[i]) /\ log[i].conn = conn) =>
                Cardinality(ResponsesTo(log, i)) = 1

\* A HOLD was answered with a result and then with an error, and the tick has
\* returned with the connection live.
C20_Witness ==
    /\ pc = "idle" /\ conn # None
    /\ \E i \in DOMAIN log :
           /\ IsReq(log[i]) /\ log[i].conn = conn /\ KindOf(log[i].body) = K_HOLD
           /\ \E j, k \in ResponsesTo(log, i) :
                  /\ j < k
                  /\ log[j].obj.type = R_RESULT /\ log[k].obj.type = R_ERROR

\* Every kind of request was dispatched on one connection and each has its one
\* response, a nested HOLD included.
C20_NestedHoldAnswered ==
    /\ pc = "idle" /\ conn # None
    /\ \E i, j \in DOMAIN log :
           /\ i < j /\ IsReq(log[i]) /\ IsReq(log[j])
           /\ KindOf(log[i].body) = K_HOLD /\ KindOf(log[j].body) = K_HOLD
           /\ log[j].depth > log[i].depth
           /\ Cardinality(ResponsesTo(log, i)) = 1
           /\ Cardinality(ResponsesTo(log, j)) = 1

====
